---------------------------- MODULE Spec2Model ----------------------------
(***************************************************************************)
(* A model of the race-track visualisation components:                     *)
(*   - TrackScene / RaceTrack3D: callouts, the turn details HUD, the track *)
(*     information panel and the callbacks of TrackScene;                  *)
(*   - CameraController: the fly-to animation driven by useFrame;          *)
(*   - smoothPoints and the elevation transform of TrackMesh;              *)
(*   - RaceTrackVisualization: the alternate-route editor, and the path    *)
(*     AlternateRouteTrack builds from a route.                            *)
(*                                                                         *)
(* Lengths are fixed-point integers in thousandths of a scene unit.        *)
(* JavaScript's null is the empty sequence and a present value v is <<v>>. *)
(***************************************************************************)
EXTENDS Integers, Sequences, FiniteSets, TLC

VARIABLES
    \* ---- TrackScene props (fixed by the parent at construction)
    interactive,          \* TrackSceneProps.interactive
    hasOnTrackClick,      \* an onTrackClick callback was passed
    hasOnTurnClick,       \* an onTurnClick callback was passed
    showTurnNumbers,      \* TrackSceneProps.showTurnNumbers
    elevationMultiplier,  \* TrackSceneProps.elevationMultiplier / TrackMesh prop
    customCallouts,       \* TrackSceneProps.customCallouts (sequence of positions)
    \* ---- TrackScene state
    selectedTurn,         \* Null or <<index>>
    hudPosition,          \* Null or <<position>>
    showTrackInfo,        \* BOOLEAN
    \* ---- the parent's callbacks, as the log of their invocations
    onTrackClickCalls,    \* sequence of positions
    onTurnClickCalls,     \* sequence of <<turnNumber, position>>
    lastEvent,            \* the last user event: [kind, idx, pos]
    \* ---- CameraController
    controlsReady,        \* controlsRef.current is set (OrbitControls mounted)
    animation,            \* animationRef.current: Null or <<record>>
    cameraPos,            \* camera.position
    controlsTarget,       \* controlsRef.current.target
    now,                  \* Date.now(), in ms
    animCalls,            \* number of animateToPosition calls made so far
    \* ---- smoothPoints / TrackMesh
    trackData,            \* the input points
    smoothingLevel,       \* the level
    groundOffset,         \* TrackMesh prop
    processed,            \* Null or <<result of the last computation>>
    \* ---- RaceTrackVisualization
    alternateRoutes,      \* sequence of routes
    selectedRouteId,      \* Null or <<id>>
    isClickToPlaceMode,   \* BOOLEAN
    visibleRoutes,        \* set of ids
    newPoint,             \* newPointX, newPointY, newPointZ: the input strings
    edits                 \* number of operations made on the routes panel so far

sceneProps == <<interactive, hasOnTrackClick, hasOnTurnClick, showTurnNumbers, customCallouts>>
sceneVars  == <<selectedTurn, hudPosition, showTrackInfo, onTrackClickCalls, onTurnClickCalls, lastEvent>>
camVars    == <<controlsReady, animation, cameraPos, controlsTarget, now, animCalls>>
geomVars   == <<trackData, smoothingLevel, groundOffset, processed>>
routeVars  == <<alternateRoutes, selectedRouteId, isClickToPlaceMode, visibleRoutes, newPoint, edits>>
vars == <<sceneProps, elevationMultiplier, sceneVars, camVars, geomVars, routeVars>>

----------------------------------------------------------------------------
(* Units and generic helpers *)

Milli == 10^3

Null == <<>>
Some(v) == <<v>>

Abs(x) == IF x < 0 THEN -x ELSE x
Min2(a, b) == IF a < b THEN a ELSE b
Max2(a, b) == IF a > b THEN a ELSE b

----------------------------------------------------------------------------
(* Bounds of the model *)

MaxElev == 2        \* elevationMultiplier ranges over 1..MaxElev in the scene
MaxNow == 2000      \* the clock is modelled up to MaxNow ms
MaxCalls == 2       \* animateToPosition calls per behaviour
TickMs == 1000      \* the clock advances in steps of at most TickMs ms
MaxPoints == 4      \* smoothPoints is applied to at most MaxPoints points
MaxLevel == 2       \* smoothing levels 0..MaxLevel
MaxMeshPoints == 4  \* TrackMesh is given MaxMeshPoints numeric points
MaxEdits == 5       \* at most MaxEdits operations on the routes panel
MaxSegments == 4    \* segments lists of 1..MaxSegments entries
MaxRoutePoints == 3 \* routes of 0..MaxRoutePoints control points
MaxSamples == 6     \* an alternate route's centre line is sampled at 2..MaxSamples points

----------------------------------------------------------------------------
(* Program constants *)

START_FINISH_POSITION == <<57183, 5896, 103212>>

ORIGINAL_TURN_CALLOUTS ==
  << <<178021, 8955, 94281>>,   \* T1
     <<180010, 8674, 11850>>,   \* T2
     <<117515, 11131, 60757>>,  \* T3
     <<163266, 8614, 43413>>,   \* T4
     <<123901, 9104, 86267>>,   \* T5
     <<32525, 8465, 81496>>,    \* T6
     <<26847, 9560, 52379>>,    \* T7
     <<-8777, 12088, 38832>>,   \* T8
     <<-2609, 12131, 19589>>,   \* T9
     <<-14033, 12442, -3543>>,  \* T10
     <<-37107, 14078, 81464>>,  \* T11
     <<-48010, 12388, -21545>>, \* T12
     <<-59514, 13232, -46049>>, \* T13
     <<-52066, 13795, -74365>>, \* T14
     <<-80219, 13582, -81831>>, \* T15
     <<-89788, 13731, 55489>>,  \* T16
     <<-74608, 13900, 66844>>,  \* T17
     <<-66465, 14277, 97035>>   \* T18
  >>

\* the number of entries of TURN_DETAILS
NumTurnDetails == 18

\* the per-axis tolerance of the position-proximity lookups
Tolerance == 5 * Milli

\* duration of a fly-to, in ms
DurationRotate == 2000
DurationPlain == 1000


----------------------------------------------------------------------------
(* Rational numbers, for the coordinates of track points (JavaScript's      *)
(* division is not integer division)                                        *)

R(k) == [n |-> k, d |-> 1]
RAdd(a, b) == [n |-> a.n * b.d + b.n * a.d, d |-> a.d * b.d]
RSub(a, b) == [n |-> a.n * b.d - b.n * a.d, d |-> a.d * b.d]
RMulInt(a, k) == [n |-> a.n * k, d |-> a.d]
RDivInt(a, k) == [n |-> a.n, d |-> a.d * k]
RLess(a, b) == a.n * b.d < b.n * a.d
REq(a, b) == a.n * b.d = b.n * a.d
RFloor(a) == a.n \div a.d

\* a TrackPoint with integer coordinates
Pt(x, y, z) == [x |-> R(x), y |-> R(y), z |-> R(z)]

RECURSIVE RMinOf(_)
RMinOf(seq) ==
    IF Len(seq) = 1 THEN seq[1]
    ELSE LET m == RMinOf(Tail(seq)) IN IF RLess(m, seq[1]) THEN m ELSE seq[1]

RECURSIVE RMaxOf(_)
RMaxOf(seq) ==
    IF Len(seq) = 1 THEN seq[1]
    ELSE LET m == RMaxOf(Tail(seq)) IN IF RLess(seq[1], m) THEN m ELSE seq[1]

----------------------------------------------------------------------------
(* TrackScene: derived values *)

\* the track TrackScene is given in the scene specifications
SceneTrackData ==
  << Pt(57183, 2896, 103212), Pt(180010, 4337, 11850),
     Pt(-52066, 6897, -81831), Pt(-92905, 4284, 26010) >>

\* TrackScene.turnCallouts
turnCallouts(show, em) ==
    IF ~show THEN <<>>
    ELSE [i \in 1..Len(ORIGINAL_TURN_CALLOUTS) |->
            << ORIGINAL_TURN_CALLOUTS[i][1],
               (ORIGINAL_TURN_CALLOUTS[i][2] * em) \div 2 + 8 * Milli,
               ORIGINAL_TURN_CALLOUTS[i][3] >>]

\* TrackScene.allCallouts: turn callouts, the start/finish callout, custom callouts
allCallouts(show, em, custom) ==
    turnCallouts(show, em) \o <<START_FINISH_POSITION>> \o custom

\* Near with the axes joined by || instead of &&
NearAnyAxis(a, b) ==
    \/ Abs(a[1] - b[1]) < Tolerance
    \/ Abs(a[2] - b[2]) < Tolerance
    \/ Abs(a[3] - b[3]) < Tolerance

\* the proximity test of the lookups: closer than the tolerance on every axis
Near(a, b) ==
    /\ Abs(a[1] - b[1]) < Tolerance
    /\ Abs(a[2] - b[2]) < Tolerance
    /\ Abs(a[3] - b[3]) < Tolerance

\* findIndex from the k-th callout on: the 0-based index of the first callout
\* near the position, -1 when there is none
RECURSIVE TurnIndexFrom(_, _, _)
TurnIndexFrom(callouts, position, k) ==
    IF k > Len(callouts) THEN -1
    ELSE IF Near(callouts[k], position) THEN k - 1
    ELSE TurnIndexFrom(callouts, position, k + 1)

\* the findIndex over turnCallouts, in handleTurnClick and handleCalloutClick
TurnIndexAt(callouts, position) == TurnIndexFrom(callouts, position, 1)

\* RaceTrack3D.trackBounds
trackBounds(data) ==
    IF Len(data) = 0 THEN [center |-> <<0, 0, 0>>, size |-> 100 * Milli]
    ELSE LET xs == [i \in 1..Len(data) |-> data[i].x]
             ys == [i \in 1..Len(data) |-> data[i].y]
             zs == [i \in 1..Len(data) |-> data[i].z]
             dx == RSub(RMaxOf(xs), RMinOf(xs))
             dz == RSub(RMaxOf(zs), RMinOf(zs))
         IN [center |-> << RFloor(RDivInt(RAdd(RMinOf(xs), RMaxOf(xs)), 2)),
                           RFloor(RDivInt(RAdd(RMinOf(ys), RMaxOf(ys)), 2)),
                           RFloor(RDivInt(RAdd(RMinOf(zs), RMaxOf(zs)), 2)) >>,
             size |-> RFloor(IF RLess(dx, dz) THEN dz ELSE dx)]

\* RaceTrack3D.cameraPosition, the camera's initial position
cameraPosition(data) ==
    LET b == trackBounds(data)
    IN << b.center[1] + (b.size * 8) \div 10, (b.size * 6) \div 10, b.center[3] + (b.size * 8) \div 10 >>

\* the distance argument handleCalloutClick and zoomToPosition pass
FlyDistance(data) == (trackBounds(data).size * 3) \div 10

----------------------------------------------------------------------------
(* CameraController *)

\* the ease function with the ease-in branch taken for every progress
EasedInOnly(p) == (2 * p * p) \div Milli

\* the ease in-out function of useFrame, on a progress in thousandths
Eased(p) ==
    IF p < 500 THEN (2 * p * p) \div Milli
    ELSE Milli - ((2 * Milli - 2 * p) * (2 * Milli - 2 * p)) \div (2 * Milli)

\* THREE.Vector3.lerpVectors, alpha in thousandths
lerpVectors(v1, v2, alpha) ==
    [i \in 1..3 |-> v1[i] + ((v2[i] - v1[i]) * alpha) \div Milli]

\* the camera position a fly-to ends at
TargetCameraPos(target, distance, enableRotation) ==
    IF enableRotation
    THEN << target[1] + (588 * distance) \div Milli,     \* cos(0.3 pi) * radius
            target[2] + (distance * 6) \div 10,
            target[3] + (809 * distance) \div Milli >>   \* sin(0.3 pi) * radius
    ELSE << target[1] + (distance * 7) \div 10,
            target[2] + (distance * 5) \div 10,
            target[3] + (distance * 7) \div 10 >>

\* animateToPosition: the value of animationRef.current after the call
animateToPosition(targetPosition, distance, enableRotation) ==
    IF ~controlsReady THEN animation      \* "Controls not available"
    ELSE Some([ active |-> TRUE,
                startTime |-> now,
                duration |-> IF enableRotation THEN DurationRotate ELSE DurationPlain,
                startCameraPos |-> cameraPos,
                targetCameraPos |-> TargetCameraPos(targetPosition, distance, enableRotation),
                startTarget |-> controlsTarget,
                targetTarget |-> targetPosition ])


\* the body of CameraController's useFrame callback
Frame ==
    /\ IF animation = Null \/ ~controlsReady THEN UNCHANGED <<animation, cameraPos, controlsTarget>>
       ELSE LET a == animation[1] IN
            IF ~a.active THEN UNCHANGED <<animation, cameraPos, controlsTarget>>
            ELSE LET elapsed == now - a.startTime
                     progress == Min2((elapsed * Milli) \div a.duration, Milli)
                     eased == Eased(progress)
                 IN /\ cameraPos' = lerpVectors(a.startCameraPos, a.targetCameraPos, eased)
                    /\ controlsTarget' = lerpVectors(a.startTarget, a.targetTarget, eased)
                    /\ animation' = IF progress >= Milli
                                    THEN Some([a EXCEPT !.active = FALSE])
                                    ELSE animation
    /\ UNCHANGED <<controlsReady, now, animCalls>>
    /\ UNCHANGED <<sceneProps, elevationMultiplier, sceneVars, geomVars, routeVars>>

----------------------------------------------------------------------------
(* RaceTrack3D: the callout click handler and the panels *)

\* HudAfterCalloutClick without onToggleTrackInfo(false) in the turn branch
HudAfterCalloutClickKeepInfo(position, tc, sf, wired) ==
    LET cur == [selectedTurn |-> selectedTurn, hudPosition |-> hudPosition,
                showTrackInfo |-> showTrackInfo]
        turnIndex == TurnIndexAt(tc, position)
    IN  IF ~wired THEN cur
        ELSE IF Abs(sf[1] - position[1]) < Tolerance /\ Abs(sf[2] - position[2]) < Tolerance
                /\ Abs(sf[3] - position[3]) < Tolerance
        THEN [selectedTurn |-> Null, hudPosition |-> Null, showTrackInfo |-> TRUE]
        ELSE IF turnIndex >= 0
        THEN [selectedTurn |-> Some(turnIndex), hudPosition |-> Some(position),
              showTrackInfo |-> showTrackInfo]
        ELSE cur

\* HudAfterCalloutClick without onSelectTurn(null) and onSetHudPosition(null)
\* in the start/finish branch
HudAfterCalloutClickNoClear(position, tc, sf, wired) ==
    LET cur == [selectedTurn |-> selectedTurn, hudPosition |-> hudPosition,
                showTrackInfo |-> showTrackInfo]
        turnIndex == TurnIndexAt(tc, position)
    IN  IF ~wired THEN cur
        ELSE IF Abs(sf[1] - position[1]) < Tolerance /\ Abs(sf[2] - position[2]) < Tolerance
                /\ Abs(sf[3] - position[3]) < Tolerance
        THEN [selectedTurn |-> selectedTurn, hudPosition |-> hudPosition, showTrackInfo |-> TRUE]
        ELSE IF turnIndex >= 0
        THEN [selectedTurn |-> Some(turnIndex), hudPosition |-> Some(position),
              showTrackInfo |-> FALSE]
        ELSE cur

\* the HUD callbacks handleCalloutClick invokes, as their effect on the
\* parent's [selectedTurn, hudPosition, showTrackInfo]; wired is FALSE for a
\* parent that passes no onSelectTurn / onSetHudPosition / onToggleTrackInfo
HudAfterCalloutClick(position, tc, sf, wired) ==
    LET cur == [selectedTurn |-> selectedTurn, hudPosition |-> hudPosition,
                showTrackInfo |-> showTrackInfo]
        isStartFinish == Near(sf, position)
        turnIndex == TurnIndexAt(tc, position)
    IN  IF ~wired THEN cur
        ELSE IF isStartFinish
        THEN [selectedTurn |-> Null, hudPosition |-> Null, showTrackInfo |-> TRUE]
        ELSE IF turnIndex >= 0
        THEN [selectedTurn |-> Some(turnIndex), hudPosition |-> Some(position),
              showTrackInfo |-> FALSE]
        ELSE cur

\* RaceTrack3D.handleCalloutClick: the fly-to, then the HUD update
handleCalloutClick(position, tc, sf, wired) ==
    /\ LET isTurn == \E k \in 1..Len(tc) : Near(tc[k], position)
       IN animation' = animateToPosition(position, FlyDistance(trackData), isTurn)
    /\ animCalls' = animCalls + 1
    /\ LET h == HudAfterCalloutClick(position, tc, sf, wired)
       IN /\ selectedTurn' = h.selectedTurn
          /\ hudPosition' = h.hudPosition
          /\ showTrackInfo' = h.showTrackInfo

\* AlternateRouteTrack.handleClick passes the click on only when the route is
\* clickable and a handler was given
\* the value of a prop the parent does not pass: neither null nor a number
Undefined == <<0, 0>>

\* {selectedTurn !== null && <TurnDetailsHUD turnIndex={selectedTurn} />}
HudRendered == selectedTurn # Null

\* TURN_DETAILS[turnIndex] is an entry of the table
TurnDetailExists(turnIndex) ==
    /\ Len(turnIndex) = 1
    /\ turnIndex[1] \in 0..(NumTurnDetails - 1)

RouteClickFires(isClickable, hasOnRouteClick) == isClickable /\ hasOnRouteClick

\* RaceTrack3D's isClickToPlaceMode as TrackScene leaves it: the default
TrackSceneClickToPlace == FALSE

----------------------------------------------------------------------------
(* TrackScene: the user's operations *)

\* what kind of callout the c-th entry of allCallouts is
CalloutKind(c) ==
    LET nTurns == Len(turnCallouts(showTurnNumbers, elevationMultiplier))
    IN IF c <= nTurns THEN "turn" ELSE IF c = nTurns + 1 THEN "startFinish" ELSE "custom"

\* the positions a click on scene geometry can report
SceneClickPositions == { turnCallouts(TRUE, elevationMultiplier)[1] }

\* a fly-to started now can still be seen to its end within the modelled time
HorizonOK == now + DurationRotate <= MaxNow

\* the user clicks the c-th callout
ClickCallout(c) ==
    /\ animCalls < MaxCalls
    /\ HorizonOK
    /\ LET tc == turnCallouts(showTurnNumbers, elevationMultiplier)
           all == allCallouts(showTurnNumbers, elevationMultiplier, customCallouts)
       IN /\ c \in 1..Len(all)
          /\ handleCalloutClick(all[c], tc, START_FINISH_POSITION, TRUE)
          /\ lastEvent' = [kind |-> CalloutKind(c), idx |-> c - 1, pos |-> all[c]]
    /\ UNCHANGED <<onTrackClickCalls, onTurnClickCalls>>
    /\ UNCHANGED <<controlsReady, cameraPos, controlsTarget, now>>
    /\ UNCHANGED <<sceneProps, elevationMultiplier, geomVars, routeVars>>

\* RaceTrackVisualization's callouts prop; the same 18 positions as
\* ORIGINAL_TURN_CALLOUTS, unscaled
TURN_CALLOUTS == ORIGINAL_TURN_CALLOUTS

\* the user clicks the c-th callout of RaceTrackVisualization's scene, which
\* passes RaceTrack3D neither turnCallouts nor the HUD callbacks
VizClickCallout(c) ==
    /\ animCalls < MaxCalls
    /\ HorizonOK
    /\ c \in 1..Len(TURN_CALLOUTS)
    /\ handleCalloutClick(TURN_CALLOUTS[c], <<>>, START_FINISH_POSITION, FALSE)
    /\ lastEvent' = [kind |-> "turn", idx |-> c - 1, pos |-> TURN_CALLOUTS[c]]
    /\ UNCHANGED <<onTrackClickCalls, onTurnClickCalls>>
    /\ UNCHANGED <<controlsReady, cameraPos, controlsTarget, now>>
    /\ UNCHANGED <<sceneProps, elevationMultiplier, geomVars, routeVars>>

\* the user clicks the close button of the turn details HUD
CloseHud ==
    /\ selectedTurn # Null
    /\ selectedTurn' = Null
    /\ hudPosition' = Null
    /\ lastEvent' = [kind |-> "closeHud", idx |-> -1, pos |-> <<0, 0, 0>>]
    /\ UNCHANGED <<showTrackInfo, onTrackClickCalls, onTurnClickCalls>>
    /\ UNCHANGED <<sceneProps, elevationMultiplier, camVars, geomVars, routeVars>>

\* the user clicks the close button of the track information panel
CloseTrackInfo ==
    /\ showTrackInfo
    /\ showTrackInfo' = FALSE
    /\ lastEvent' = [kind |-> "closeInfo", idx |-> -1, pos |-> <<0, 0, 0>>]
    /\ UNCHANGED <<selectedTurn, hudPosition, onTrackClickCalls, onTurnClickCalls>>
    /\ UNCHANGED <<sceneProps, elevationMultiplier, camVars, geomVars, routeVars>>

\* TrackScene.handleSceneClick (with handleTurnClick inlined as it is called)
TrackSceneHandleSceneClick(position) ==
    /\ onTrackClickCalls' = IF hasOnTrackClick THEN Append(onTrackClickCalls, position)
                            ELSE onTrackClickCalls
    /\ LET turnIndex == TurnIndexAt(turnCallouts(showTurnNumbers, elevationMultiplier), position)
       IN IF hasOnTurnClick /\ turnIndex >= 0
          THEN selectedTurn' = Some(turnIndex) /\ hudPosition' = Some(position)
          ELSE UNCHANGED <<selectedTurn, hudPosition>>
    /\ UNCHANGED <<showTrackInfo, onTurnClickCalls>>

\* the user clicks the main track at position p: TrackMesh's mesh and line
\* carry no click handler
ClickTrack(p) ==
    /\ lastEvent' = [kind |-> "track", idx |-> -1, pos |-> p]
    /\ UNCHANGED <<selectedTurn, hudPosition, showTrackInfo, onTrackClickCalls, onTurnClickCalls>>
    /\ UNCHANGED <<sceneProps, elevationMultiplier, camVars, geomVars, routeVars>>

\* the user clicks the track of an alternate route at position p; onSceneClick is
\* handleSceneClick when interactive and undefined otherwise
ClickRoute(p) ==
    /\ Len(alternateRoutes) > 0
    /\ lastEvent' = [kind |-> "track", idx |-> -1, pos |-> p]
    /\ IF RouteClickFires(TrackSceneClickToPlace, interactive)
       THEN TrackSceneHandleSceneClick(p)
       ELSE UNCHANGED <<selectedTurn, hudPosition, showTrackInfo, onTrackClickCalls, onTurnClickCalls>>
    /\ UNCHANGED <<sceneProps, elevationMultiplier, camVars, geomVars, routeVars>>

\* OrbitControls mounts and controlsRef.current is set
MountControls ==
    /\ ~controlsReady
    /\ controlsReady' = TRUE
    /\ UNCHANGED <<animation, cameraPos, controlsTarget, now, animCalls>>
    /\ UNCHANGED <<sceneProps, elevationMultiplier, sceneVars, geomVars, routeVars>>

\* the clock advances
Tick ==
    /\ now < MaxNow
    /\ now' = Min2(now + TickMs, MaxNow)
    /\ UNCHANGED <<controlsReady, animation, cameraPos, controlsTarget, animCalls>>
    /\ UNCHANGED <<sceneProps, elevationMultiplier, sceneVars, geomVars, routeVars>>


----------------------------------------------------------------------------
(* smoothPoints and the elevation transform of TrackMesh *)

\* NaN, as 0/0
NaN == [n |-> 0, d |-> 0]
isNaN(a) == a.d = 0

RECURSIVE RSum(_)
RSum(seq) == IF Len(seq) = 0 THEN R(0) ELSE RAdd(seq[1], RSum(Tail(seq)))

\* the 0-based indices the inner loop of smoothPoints reads for output point
\* i: (i + j + n) % n for j = -halfWindow .. halfWindow, in loop order
WindowIndices(i, n, halfWindow) ==
    [k \in 1..(2 * halfWindow + 1) |-> (i + (k - 1 - halfWindow) + n) % n]

\* smoothPoints without the early return for level 0 or fewer than 3 points
smoothPointsAlways(points, level) ==
    LET n == Len(points)
        windowSize == Min2(level * 2 + 1, n)
        halfWindow == windowSize \div 2
        count == 2 * halfWindow + 1
        smoothed == [i \in 1..n |->
            LET w == WindowIndices(i - 1, n, halfWindow)
            IN [ x |-> RDivInt(RSum([k \in 1..count |-> points[w[k] + 1].x]), count),
                 y |-> RDivInt(RSum([k \in 1..count |-> points[w[k] + 1].y]), count),
                 z |-> RDivInt(RSum([k \in 1..count |-> points[w[k] + 1].z]), count) ]]
    IN IF n > 0 /\ count > 0 THEN smoothed ELSE points

\* smoothPoints; every point read is numeric, so count is the number of loop
\* iterations (the distance and sector fields are carried along unchanged and
\* are left out)
smoothPoints(points, level) ==
    IF level = 0 \/ Len(points) < 3 THEN points
    ELSE LET n == Len(points)
             windowSize == Min2(level * 2 + 1, n)
             halfWindow == windowSize \div 2
             count == 2 * halfWindow + 1
             smoothed == [i \in 1..n |->
                 LET w == WindowIndices(i - 1, n, halfWindow)
                 IN [ x |-> RDivInt(RSum([k \in 1..count |-> points[w[k] + 1].x]), count),
                      y |-> RDivInt(RSum([k \in 1..count |-> points[w[k] + 1].y]), count),
                      z |-> RDivInt(RSum([k \in 1..count |-> points[w[k] + 1].z]), count) ]]
         IN IF count > 0 THEN smoothed ELSE points

\* TrackMesh's validPoints filter
IsValidPoint(p) == ~isNaN(p.x) /\ ~isNaN(p.y) /\ ~isNaN(p.z)

\* the scene points of TrackMesh with yOffset = minY * elevationMultiplier + groundOffset
TrackMeshPointsPlus(data, em, level, go) ==
    LET validPoints == SelectSeq(data, IsValidPoint)
    IN IF Len(validPoints) < 2
       THEN [ok |-> FALSE, processedPoints |-> <<>>, points |-> <<>>]
       ELSE LET processedPoints == IF level > 0 THEN smoothPoints(validPoints, level)
                                   ELSE validPoints
                minY == RMinOf([i \in 1..Len(processedPoints) |-> processedPoints[i].y])
                yOffset == RAdd(RMulInt(minY, em), R(go))
            IN [ok |-> TRUE, processedPoints |-> processedPoints,
                points |-> [i \in 1..Len(processedPoints) |->
                    [ x |-> processedPoints[i].x,
                      y |-> RSub(RMulInt(processedPoints[i].y, em), yOffset),
                      z |-> processedPoints[i].z ]]]

\* TrackMesh.planeGeometry up to the curve's control points: the valid points,
\* the processed points and the scene points; ok is FALSE on the fallback for
\* fewer than 2 valid points
TrackMeshPoints(data, em, level, go) ==
    LET validPoints == SelectSeq(data, IsValidPoint)
    IN IF Len(validPoints) < 2
       THEN [ok |-> FALSE, processedPoints |-> <<>>, points |-> <<>>]
       ELSE LET processedPoints == IF level > 0 THEN smoothPoints(validPoints, level)
                                   ELSE validPoints
                minY == RMinOf([i \in 1..Len(processedPoints) |-> processedPoints[i].y])
                yOffset == RSub(RMulInt(minY, em), R(go))
            IN [ok |-> TRUE, processedPoints |-> processedPoints,
                points |-> [i \in 1..Len(processedPoints) |->
                    [ x |-> processedPoints[i].x,
                      y |-> RSub(RMulInt(processedPoints[i].y, em), yOffset),
                      z |-> processedPoints[i].z ]]]

\* the slider ranges and defaults of RaceTrackVisualization
ElevMin == 1
ElevMax == 50
GroundMin == 0
GroundMax == 50
DefaultElevation == 2
DefaultGroundOffset == 3

\* smoothPoints(trackData, smoothingLevel) is computed
Smooth ==
    /\ processed = Null
    /\ processed' = Some([kind |-> "smooth", out |-> smoothPoints(trackData, smoothingLevel)])
    /\ UNCHANGED <<trackData, smoothingLevel, groundOffset>>
    /\ UNCHANGED <<sceneProps, elevationMultiplier, sceneVars, camVars, routeVars>>

\* TrackMesh renders trackData
BuildTrackMesh ==
    /\ processed = Null
    /\ processed' = Some([kind |-> "mesh",
                          out |-> TrackMeshPoints(trackData, elevationMultiplier,
                                                  smoothingLevel, groundOffset)])
    /\ UNCHANGED <<trackData, smoothingLevel, groundOffset>>
    /\ UNCHANGED <<sceneProps, elevationMultiplier, sceneVars, camVars, routeVars>>

----------------------------------------------------------------------------
(* TrackMesh and AlternateRouteTrack: the plane and ribbon geometries *)

\* the sampled centre line. curve.getPoints(n) (three.js) returns n + 1
\* positions on the spline; the geometry code uses them one at a time and in
\* consecutive pairs, so the centre lines below stand for the spline's
\* samples. A closed curve ends on its first point.
CurveShapes == {"zigzag", "climb", "vertical"}

CurveSample(shape, i) ==
    CASE shape = "zigzag"   -> <<3 * i, 2, 4 * (i % 2)>>
      [] shape = "climb"    -> <<(i * i) % 7, 2 * i, (3 * i) % 5>>
      [] shape = "vertical" -> <<IF i < 3 THEN 0 ELSE i, i, 0>>

getPoints(shape, divisions, closed) ==
    [i \in 1..(divisions + 1) |->
        IF closed /\ i = divisions + 1 THEN CurveSample(shape, 1)
        ELSE CurveSample(shape, i)]

\* typeof window !== 'undefined' && window.innerWidth < 768 ? length * 2 : length * 4
NumSegments(length, isMobile) == IF isMobile THEN length * 2 ELSE length * 4

\* the index buffer with the closing triangles joined to a vertex pair past
\* the last one
TrackIndicesOpen(k) ==
    [t \in 1..(2 * (k - 1)) |->
        LET i == (t - 1) \div 2
            baseIndex == i * 2
            nextBase == baseIndex + 2
        IN IF t % 2 = 1 THEN <<baseIndex, nextBase, baseIndex + 1>>
           ELSE <<baseIndex + 1, nextBase, nextBase + 1>>]
    \o << <<0, 2 * k, 1>>, <<1, 2 * k, 2 * k + 1>> >>

\* the index buffer TrackMesh builds for k sampled points, as triangles: two
\* for every i < k - 1, then the two closing ones
TrackIndices(k) ==
    LET lastIndex == (k - 1) * 2
    IN [t \in 1..(2 * (k - 1)) |->
           LET i == (t - 1) \div 2
               baseIndex == i * 2
               nextBase == baseIndex + 2
           IN IF t % 2 = 1 THEN <<baseIndex, nextBase, baseIndex + 1>>
              ELSE <<baseIndex + 1, nextBase, nextBase + 1>>]
       \o << <<lastIndex, 0, lastIndex + 1>>, <<lastIndex + 1, 0, 1>> >>

\* the vertices of the gradient-fade plane: the sample, then the point below
\* it on the ground
PlaneVertices(curvePoints) ==
    [v \in 1..(2 * Len(curvePoints)) |->
        LET point == curvePoints[(v + 1) \div 2]
        IN IF v % 2 = 1 THEN point ELSE <<point[1], 0, point[3]>>]

VSub(a, b) == <<a[1] - b[1], a[2] - b[2], a[3] - b[3]>>

\* Vector3.normalize(): the unit vector along v, or the zero vector for
\* v = 0. It is kept as the vector it points along; its components are those
\* of along divided by the length of along.
normalize(v) == [along |-> v]

\* the pair of ribbon vertices with the offset laid along the direction of
\* travel
RibbonPairAlong(point, nextPoint, trackWidth) ==
    LET direction == normalize(VSub(nextPoint, point))
        perpendicular == normalize(<<direction.along[1], 0, direction.along[3]>>)
    IN << [point |-> point, along |-> perpendicular.along, times |-> [n |-> trackWidth, d |-> 2]],
          [point |-> point, along |-> perpendicular.along, times |-> [n |-> -trackWidth, d |-> 2]] >>

\* leftPoint and rightPoint for one sample: point + perpendicular * halfWidth
\* and point - perpendicular * halfWidth, each kept as the point, the vector
\* the unit perpendicular points along and the signed halfWidth.
\* (-direction.z, 0, direction.x) is a positive multiple of the same
\* components of nextPoint - point, so normalising it gives the unit vector
\* along those.
RibbonPair(point, nextPoint, trackWidth) ==
    LET direction == normalize(VSub(nextPoint, point))
        perpendicular == normalize(<<-direction.along[3], 0, direction.along[1]>>)
    IN << [point |-> point, along |-> perpendicular.along, times |-> [n |-> trackWidth, d |-> 2]],
          [point |-> point, along |-> perpendicular.along, times |-> [n |-> -trackWidth, d |-> 2]] >>

\* TrackMesh.trackRibbonGeometry: nextIndex = (i + 1) % curvePoints.length
TrackRibbonVertices(curvePoints, trackWidth) ==
    [i \in 1..Len(curvePoints) |->
        RibbonPair(curvePoints[i], curvePoints[(i % Len(curvePoints)) + 1], trackWidth)]

\* AlternateRouteTrack's ribbon: nextIndex = (i + 1) % length, then
\* Math.min(nextIndex, length - 1), which leaves nextIndex as it is
RouteRibbonVertices(segmentPoints, trackWidth) ==
    [i \in 1..Len(segmentPoints) |->
        LET nextIndex == i % Len(segmentPoints)
        IN RibbonPair(segmentPoints[i],
                      segmentPoints[Min2(nextIndex, Len(segmentPoints) - 1) + 1],
                      trackWidth)]

TrackWidthChoices == {2, 3}

\* TrackMesh.planeGeometry from the curve on: the samples, the vertices and
\* the triangles
BuildPlaneGeometry(isMobile, shape) ==
    /\ processed = Null
    /\ LET validPoints == SelectSeq(trackData, IsValidPoint)
           curvePoints == getPoints(shape, NumSegments(Len(validPoints), isMobile), TRUE)
       IN /\ Len(validPoints) >= 2
          /\ processed' = Some([kind |-> "plane", curvePoints |-> curvePoints,
                                vertices |-> PlaneVertices(curvePoints),
                                indices |-> TrackIndices(Len(curvePoints))])
    /\ UNCHANGED <<trackData, smoothingLevel, groundOffset>>
    /\ UNCHANGED <<sceneProps, elevationMultiplier, sceneVars, camVars, routeVars>>

\* TrackMesh.trackRibbonGeometry
BuildTrackRibbon(isMobile, shape, trackWidth) ==
    /\ processed = Null
    /\ LET closed == Len(SelectSeq(trackData, IsValidPoint)) >= 2   \* else the fallback curve
           curvePoints == getPoints(shape, NumSegments(Len(trackData), isMobile), closed)
           pairs == TrackRibbonVertices(curvePoints, trackWidth)
       IN processed' = Some([kind |-> "ribbon", curvePoints |-> curvePoints,
                             component |-> "TrackMesh", trackWidth |-> trackWidth,
                             vertices |-> [v \in 1..(2 * Len(pairs)) |->
                                              pairs[(v + 1) \div 2][2 - (v % 2)]],
                             indices |-> TrackIndices(Len(curvePoints))])
    /\ UNCHANGED <<trackData, smoothingLevel, groundOffset>>
    /\ UNCHANGED <<sceneProps, elevationMultiplier, sceneVars, camVars, routeVars>>

\* AlternateRouteTrack's ribbon for a path sampled at k points
BuildRouteRibbon(k, shape, trackWidth) ==
    /\ processed = Null
    /\ LET segmentPoints == getPoints(shape, k - 1, FALSE)
           pairs == RouteRibbonVertices(segmentPoints, trackWidth)
       IN processed' = Some([kind |-> "ribbon", curvePoints |-> segmentPoints,
                             component |-> "AlternateRouteTrack", trackWidth |-> trackWidth,
                             vertices |-> [v \in 1..(2 * Len(pairs)) |->
                                              pairs[(v + 1) \div 2][2 - (v % 2)]],
                             indices |-> <<>>])
    /\ UNCHANGED <<trackData, smoothingLevel, groundOffset>>
    /\ UNCHANGED <<sceneProps, elevationMultiplier, sceneVars, camVars, routeVars>>

----------------------------------------------------------------------------
(* StartFinishLine: the nearest-point lookup that orients the marker *)

RMul(a, b) == [n |-> a.n * b.n, d |-> a.d * b.d]

\* the square of dist for a processed point; Math.sqrt is increasing, so
\* comparing squares compares the distances
RECURSIVE GCD(_, _)
GCD(a, b) == IF b = 0 THEN a ELSE GCD(b, a % b)

\* the same rational in lowest terms
RNorm(a) ==
    LET g == GCD(Abs(a.n), a.d)
    IN IF g = 0 THEN a ELSE [n |-> a.n \div g, d |-> a.d \div g]

RSquare(a) == RNorm(RMul(RNorm(a), RNorm(a)))

DistSq(point, adjustedY, position) ==
    RNorm(RAdd(RNorm(RAdd(RSquare(RSub(point.x, R(position[1]))),
                          RSquare(RSub(adjustedY, R(position[2]))))),
               RSquare(RSub(point.z, R(position[3])))))

\* the forEach taking a point that is as near as the nearest so far
RECURSIVE ClosestFromLast(_, _, _, _, _, _, _)
ClosestFromLast(pp, em, yOffset, position, index, minDistance, closestIndex) ==
    IF index >= Len(pp) THEN closestIndex
    ELSE LET point == pp[index + 1]
             adjustedY == RSub(RMulInt(point.y, em), yOffset)
             dist == DistSq(point, adjustedY, position)
         IN IF minDistance = Null \/ ~RLess(minDistance[1], dist)
            THEN ClosestFromLast(pp, em, yOffset, position, index + 1, Some(dist), index)
            ELSE ClosestFromLast(pp, em, yOffset, position, index + 1, minDistance, closestIndex)

\* processedPoints.forEach: index is 0-based, minDistance is Null while it
\* is Number.POSITIVE_INFINITY
RECURSIVE ClosestFrom(_, _, _, _, _, _, _)
ClosestFrom(pp, em, yOffset, position, index, minDistance, closestIndex) ==
    IF index >= Len(pp) THEN closestIndex
    ELSE LET point == pp[index + 1]
             adjustedY == RSub(RMulInt(point.y, em), yOffset)
             dist == DistSq(point, adjustedY, position)
         IN IF minDistance = Null \/ RLess(dist, minDistance[1])
            THEN ClosestFrom(pp, em, yOffset, position, index + 1, Some(dist), index)
            ELSE ClosestFrom(pp, em, yOffset, position, index + 1, minDistance, closestIndex)

\* StartFinishLine.lineGeometry up to the direction vector, before it is
\* normalised; trackData has at least one point
StartFinishDirection(data, position, em, level, go) ==
    LET processedPoints == IF level > 0 THEN smoothPoints(data, level) ELSE data
        minY == RMinOf([i \in 1..Len(processedPoints) |-> processedPoints[i].y])
        yOffset == RSub(RMulInt(minY, em), R(go))
        closestIndex == ClosestFrom(processedPoints, em, yOffset, position, 0, Null, 0)
        prevIndex == (closestIndex - 1 + Len(processedPoints)) % Len(processedPoints)
        nextIndex == (closestIndex + 1) % Len(processedPoints)
        prevPoint == processedPoints[prevIndex + 1]
        nextPoint == processedPoints[nextIndex + 1]
    IN [ processedPoints |-> processedPoints,
         closestIndex |-> closestIndex,
         prevIndex |-> prevIndex,
         nextIndex |-> nextIndex,
         direction |-> [ x |-> RSub(nextPoint.x, prevPoint.x),
                         z |-> RSub(nextPoint.z, prevPoint.z) ] ]

\* StartFinishLine renders for a marker at position
BuildStartFinishLine(position) ==
    /\ processed = Null
    /\ Len(trackData) >= 1
    /\ processed' = Some([kind |-> "line", position |-> position,
                          out |-> StartFinishDirection(trackData, position,
                                      elevationMultiplier, smoothingLevel, groundOffset)])
    /\ UNCHANGED <<trackData, smoothingLevel, groundOffset>>
    /\ UNCHANGED <<sceneProps, elevationMultiplier, sceneVars, camVars, routeVars>>

----------------------------------------------------------------------------
(* RaceTrackVisualization: the bundled alternate routes *)

\* controlPoints and segments are optional: Null when undefined
ALTERNATE_ROUTES ==
  << [ id |-> "chicane-bypass-1", name |-> "Chicane Bypass 1",
       startPoint |-> <<82924, 3546, 89049>>,
       endPoint |-> <<119662, 5533, 51272>>,
       controlPoints |-> Null, segments |-> Null ],
     [ id |-> "bypass-2", name |-> "Bypass 2",
       startPoint |-> <<25899, 4653, 51471>>,
       endPoint |-> <<-3273, 7437, 6140>>,
       controlPoints |-> Some(<< <<20710, 6240, 26910>> >>), segments |-> Null ],
     [ id |-> "bypass-3", name |-> "Bypass 3",
       startPoint |-> <<-92905, 8568, -25420>>,
       endPoint |-> <<-92872, 8512, 26010>>,
       controlPoints |-> Some(<< <<-77800, 8500, 7100>>, <<-77800, 8500, 18500>>,
                                 <<-80500, 8500, 23000>>, <<-85000, 8500, 25000>>,
                                 <<-90000, 8500, 26000>> >>),
       segments |-> Some(<<"straight", "straight", "curve", "curve", "curve", "curve">>) ],
     [ id |-> "bypass-4", name |-> "Bypass 4",
       startPoint |-> <<-46350, 8942, 102319>>,
       endPoint |-> <<-92534, 8686, 45538>>,
       controlPoints |-> Some(<< <<-86390, 8860, 97120>>, <<-91630, 8770, 65700>> >>),
       segments |-> Null ] >>

RouteIds == { ALTERNATE_ROUTES[i].id : i \in 1..Len(ALTERNATE_ROUTES) }

----------------------------------------------------------------------------
(* RaceTrackVisualization: editing the alternate routes *)

\* route.controlPoints || []
ControlPointsOf(route) ==
    IF route.controlPoints = Null THEN <<>> ELSE route.controlPoints[1]

RouteById(routes, routeId) ==
    routes[CHOOSE i \in 1..Len(routes) : routes[i].id = routeId]

\* Number.parseFloat on the strings typed into a numeric input, in
\* thousandths; Null is NaN
ParseFloat(str) ==
    CASE str = "0"   -> Some(0)
      [] str = "7.5" -> Some(7500)
      [] str = "-3"  -> Some(-3000)
      [] OTHER       -> Null

\* Number.parseFloat(str) || 0
ParseFloatOrZero(str) ==
    IF ParseFloat(str) = Null THEN 0 ELSE ParseFloat(str)[1]

addControlPoint(routes, routeId, np) ==
    [i \in 1..Len(routes) |->
        IF routes[i].id = routeId
        THEN [routes[i] EXCEPT !.controlPoints =
                Some(Append(ControlPointsOf(routes[i]),
                            << ParseFloatOrZero(np[1]),
                               ParseFloatOrZero(np[2]),
                               ParseFloatOrZero(np[3]) >>))]
        ELSE routes[i]]

\* handleSceneClick putting the clicked position first in the list
handleSceneClickPrepend(routes, clickToPlace, selected, position) ==
    IF clickToPlace /\ selected # Null
    THEN [i \in 1..Len(routes) |->
            IF routes[i].id = selected[1]
            THEN [routes[i] EXCEPT !.controlPoints =
                    Some(<<position>> \o ControlPointsOf(routes[i]))]
            ELSE routes[i]]
    ELSE routes

\* RaceTrackVisualization.handleSceneClick
handleSceneClick(routes, clickToPlace, selected, position) ==
    IF clickToPlace /\ selected # Null
    THEN [i \in 1..Len(routes) |->
            IF routes[i].id = selected[1]
            THEN [routes[i] EXCEPT !.controlPoints =
                    Some(Append(ControlPointsOf(routes[i]), position))]
            ELSE routes[i]]
    ELSE routes

\* pointIndex and coordinate are 0-based as in the source
updateControlPoint(routes, routeId, pointIndex, coordinate, value) ==
    [i \in 1..Len(routes) |->
        IF routes[i].id = routeId /\ routes[i].controlPoints # Null
        THEN [routes[i] EXCEPT !.controlPoints =
                Some([routes[i].controlPoints[1]
                         EXCEPT ![pointIndex + 1][coordinate + 1] = value])]
        ELSE routes[i]]

\* deleteControlPoint dropping a route whose last control point is deleted
deleteControlPointDropRoute(routes, routeId, pointIndex) ==
    LET kept == SelectSeq(routes, LAMBDA r :
                    ~(r.id = routeId /\ r.controlPoints # Null
                        /\ Len(r.controlPoints[1]) = 1))
    IN [i \in 1..Len(kept) |->
          IF kept[i].id = routeId /\ kept[i].controlPoints # Null
          THEN LET cps == kept[i].controlPoints[1]
               IN [kept[i] EXCEPT !.controlPoints =
                      Some([k \in 1..(Len(cps) - 1) |->
                               IF k <= pointIndex THEN cps[k] ELSE cps[k + 1]])]
          ELSE kept[i]]

deleteControlPoint(routes, routeId, pointIndex) ==
    [i \in 1..Len(routes) |->
        IF routes[i].id = routeId /\ routes[i].controlPoints # Null
        THEN LET cps == routes[i].controlPoints[1]
                 newControlPoints ==
                     [k \in 1..(Len(cps) - 1) |->
                         IF k <= pointIndex THEN cps[k] ELSE cps[k + 1]]
             IN [routes[i] EXCEPT !.controlPoints =
                    IF Len(newControlPoints) > 0 THEN Some(newControlPoints)
                    ELSE Null]
        ELSE routes[i]]

\* toggleRouteVisibility that only ever adds the id
toggleRouteVisibilityAddOnly(prev, routeId) == prev \cup {routeId}

toggleRouteVisibility(prev, routeId) ==
    IF routeId \in prev THEN prev \ {routeId} ELSE prev \cup {routeId}

visibleAlternateRoutes ==
    SelectSeq(alternateRoutes, LAMBDA route : route.id \in visibleRoutes)

----------------------------------------------------------------------------
(* AlternateRouteTrack: the path of a route *)

AllPoints(route) ==
    <<route.startPoint>> \o ControlPointsOf(route) \o <<route.endPoint>>

\* the loop over route.segments going on after a 'curve' entry
RECURSIVE SegmentsLoopNoBreak(_, _, _, _, _)
SegmentsLoopNoBreak(allPoints, segments, segmentIdx, currentIndex, curves) ==
    IF segmentIdx > Len(segments) THEN [ok |-> TRUE, curves |-> curves]
    ELSE IF segments[segmentIdx] = "straight"
         THEN IF currentIndex + 2 > Len(allPoints)
              THEN [ok |-> FALSE, curves |-> curves]
              ELSE SegmentsLoopNoBreak(allPoints, segments, segmentIdx + 1, currentIndex + 1,
                       Append(curves,
                              [type |-> "LineCurve3",
                               pts |-> << allPoints[currentIndex + 1],
                                          allPoints[currentIndex + 2] >>]))
    ELSE IF segments[segmentIdx] = "curve"
         THEN LET curvePoints == SubSeq(allPoints, currentIndex + 1, Len(allPoints))
              IN IF Len(curvePoints) < 2
                 THEN [ok |-> FALSE,
                       curves |-> Append(curves, [type |-> "CatmullRomCurve3",
                                                  pts |-> curvePoints])]
                 ELSE SegmentsLoopNoBreak(allPoints, segments, segmentIdx + 1, currentIndex,
                          Append(curves, [type |-> "CatmullRomCurve3",
                                          pts |-> curvePoints]))
    ELSE SegmentsLoopNoBreak(allPoints, segments, segmentIdx + 1, currentIndex, curves)

\* the loop over route.segments; currentIndex is 0-based as in the source.
\* ok turns FALSE where the source reads a point that is not there: p1 or p2
\* of a straight is undefined (p1.x throws), or the spline is given fewer
\* than two points (its first span has no second point to read).
RECURSIVE SegmentsLoop(_, _, _, _, _)
SegmentsLoop(allPoints, segments, segmentIdx, currentIndex, curves) ==
    IF segmentIdx > Len(segments) THEN [ok |-> TRUE, curves |-> curves]
    ELSE IF segments[segmentIdx] = "straight"
         THEN IF currentIndex + 2 > Len(allPoints)
              THEN [ok |-> FALSE, curves |-> curves]
              ELSE SegmentsLoop(allPoints, segments, segmentIdx + 1, currentIndex + 1,
                       Append(curves,
                              [type |-> "LineCurve3",
                               pts |-> << allPoints[currentIndex + 1],
                                          allPoints[currentIndex + 2] >>]))
    ELSE IF segments[segmentIdx] = "curve"
         THEN LET curvePoints == SubSeq(allPoints, currentIndex + 1, Len(allPoints))
              IN [ok |-> Len(curvePoints) >= 2,
                  curves |-> Append(curves, [type |-> "CatmullRomCurve3",
                                             pts |-> curvePoints])]
    ELSE SegmentsLoop(allPoints, segments, segmentIdx + 1, currentIndex, curves)

\* the CurvePath AlternateRouteTrack builds: the curves added to it, each
\* with the points it interpolates
BuildPath(route) ==
    LET allPoints == AllPoints(route)
    IN IF route.segments # Null /\ Len(route.segments[1]) > 0
       THEN SegmentsLoop(allPoints, route.segments[1], 1, 0, <<>>)
       ELSE [ok |-> TRUE,
             curves |-> << [type |-> "CatmullRomCurve3", pts |-> allPoints] >>]

\* AlternateRouteTrack renders the one route it is given
BuildRoutePath ==
    /\ processed = Null
    /\ Len(alternateRoutes) = 1
    /\ processed' = Some([kind |-> "path", out |-> BuildPath(alternateRoutes[1])])
    /\ UNCHANGED <<trackData, smoothingLevel, groundOffset>>
    /\ UNCHANGED <<sceneProps, elevationMultiplier, sceneVars, camVars, routeVars>>

\* every route passed to the scene renders: none of the AlternateRouteTrack
\* components throws while building its path
SceneRenders ==
    \A i \in 1..Len(alternateRoutes) :
        alternateRoutes[i].id \in visibleRoutes => BuildPath(alternateRoutes[i]).ok

----------------------------------------------------------------------------
(* RaceTrackVisualization: the operations of the routes panel and the scene *)

\* what a numeric input hands to its onChange: the text of a number, or the
\* empty string for a cleared or unparsable field
NewPointInputs == { "", "7.5" }

CoordinateInputs == { "", "-3" }

RouteClickPositions == { <<-80000, 8500, 10000>> }

OthersIdle == UNCHANGED <<sceneProps, elevationMultiplier, sceneVars, camVars, geomVars>>

PanelUsable ==
    /\ edits < MaxEdits
    /\ SceneRenders
    /\ edits' = edits + 1

\* the route's name is clicked
SelectRoute(id) ==
    /\ PanelUsable
    /\ selectedRouteId' = IF selectedRouteId = Some(id) THEN Null ELSE Some(id)
    /\ UNCHANGED <<alternateRoutes, isClickToPlaceMode, visibleRoutes, newPoint>>
    /\ OthersIdle

\* the Click to Place switch of the selected route
ToggleClickToPlace ==
    /\ selectedRouteId # Null
    /\ PanelUsable
    /\ isClickToPlaceMode' = ~isClickToPlaceMode
    /\ UNCHANGED <<alternateRoutes, selectedRouteId, visibleRoutes, newPoint>>
    /\ OthersIdle

\* one of the New Point Position inputs (0: X, 1: Y, 2: Z) is edited
SetNewPoint(coordinate, str) ==
    /\ selectedRouteId # Null
    /\ ~isClickToPlaceMode
    /\ PanelUsable
    /\ newPoint' = [newPoint EXCEPT ![coordinate + 1] = str]
    /\ UNCHANGED <<alternateRoutes, selectedRouteId, isClickToPlaceMode, visibleRoutes>>
    /\ OthersIdle

\* the Add Point button of the selected route
AddPoint ==
    /\ selectedRouteId # Null
    /\ ~isClickToPlaceMode
    /\ PanelUsable
    /\ alternateRoutes' = addControlPoint(alternateRoutes, selectedRouteId[1], newPoint)
    /\ UNCHANGED <<selectedRouteId, isClickToPlaceMode, visibleRoutes, newPoint>>
    /\ OthersIdle

\* a rendered route is clicked in the scene
PlaceByClick(position) ==
    /\ Len(visibleAlternateRoutes) > 0
    /\ PanelUsable
    /\ alternateRoutes' =
          IF RouteClickFires(isClickToPlaceMode, TRUE)
          THEN handleSceneClick(alternateRoutes, isClickToPlaceMode, selectedRouteId, position)
          ELSE alternateRoutes
    /\ UNCHANGED <<selectedRouteId, isClickToPlaceMode, visibleRoutes, newPoint>>
    /\ OthersIdle

\* a coordinate input of a control point of the selected route is edited
UpdatePoint(pointIndex, coordinate, str) ==
    /\ selectedRouteId # Null
    /\ pointIndex < Len(ControlPointsOf(RouteById(alternateRoutes, selectedRouteId[1])))
    /\ PanelUsable
    /\ alternateRoutes' = updateControlPoint(alternateRoutes, selectedRouteId[1],
                                             pointIndex, coordinate, ParseFloatOrZero(str))
    /\ UNCHANGED <<selectedRouteId, isClickToPlaceMode, visibleRoutes, newPoint>>
    /\ OthersIdle

\* the Delete button of a control point of the selected route
DeletePoint(pointIndex) ==
    /\ selectedRouteId # Null
    /\ pointIndex < Len(ControlPointsOf(RouteById(alternateRoutes, selectedRouteId[1])))
    /\ PanelUsable
    /\ alternateRoutes' = deleteControlPoint(alternateRoutes, selectedRouteId[1], pointIndex)
    /\ UNCHANGED <<selectedRouteId, isClickToPlaceMode, visibleRoutes, newPoint>>
    /\ OthersIdle

\* the visibility switch of a route
ToggleVisibility(id) ==
    /\ PanelUsable
    /\ visibleRoutes' = toggleRouteVisibility(visibleRoutes, id)
    /\ UNCHANGED <<alternateRoutes, selectedRouteId, isClickToPlaceMode, newPoint>>
    /\ OthersIdle

----------------------------------------------------------------------------
(* Specification of TrackScene with its camera *)

CustomCalloutChoices ==
  { <<>>,
    << <<0, 40000, 0>>,               \* far from every callout
       <<117515, 14000, 60757>>,      \* above T3
       <<58183, 5896, 103212>> >> }   \* beside the start/finish line

IdleGeom ==
    /\ smoothingLevel = 0
    /\ groundOffset = 0
    /\ processed = Null

IdleRoutes ==
    /\ selectedRouteId = Null
    /\ isClickToPlaceMode = FALSE
    /\ visibleRoutes = RouteIds
    /\ newPoint = <<"0", "0", "0">>
    /\ edits = 0

InitCamera ==
    /\ controlsReady = FALSE
    /\ animation = Null
    /\ cameraPos = cameraPosition(SceneTrackData)
    /\ controlsTarget = <<0, 0, 0>>
    /\ now = 0
    /\ animCalls = 0

InitHud ==
    /\ selectedTurn = Null
    /\ hudPosition = Null
    /\ showTrackInfo = FALSE
    /\ onTrackClickCalls = <<>>
    /\ onTurnClickCalls = <<>>
    /\ lastEvent = [kind |-> "none", idx |-> -1, pos |-> <<0, 0, 0>>]

Init ==
    /\ interactive \in BOOLEAN
    /\ hasOnTrackClick \in BOOLEAN
    /\ hasOnTurnClick \in BOOLEAN
    /\ showTurnNumbers \in BOOLEAN
    /\ elevationMultiplier \in 1..MaxElev
    /\ customCallouts \in CustomCalloutChoices
    /\ InitHud
    /\ InitCamera
    /\ trackData = SceneTrackData
    /\ IdleGeom
    /\ alternateRoutes = ALTERNATE_ROUTES
    /\ IdleRoutes

Next ==
    \/ \E c \in 1..(Len(ORIGINAL_TURN_CALLOUTS) + 4) : ClickCallout(c)
    \/ CloseHud
    \/ CloseTrackInfo
    \/ \E p \in SceneClickPositions : ClickTrack(p)
    \/ \E p \in SceneClickPositions : ClickRoute(p)
    \/ MountControls
    \/ Tick
    \/ Frame

Spec == Init /\ [][Next]_vars


\* TrackScene as page.tsx and the module's example use it, with frames
\* rendered and the clock advancing for ever
InitLive ==
    /\ Init
    /\ interactive /\ hasOnTrackClick /\ ~hasOnTurnClick
    /\ showTurnNumbers
    /\ elevationMultiplier = MaxElev
    /\ customCallouts = <<>>

LiveSpec == InitLive /\ [][Next]_vars /\ WF_vars(Frame) /\ WF_vars(Tick)

----------------------------------------------------------------------------
(* Specifications of smoothPoints and of TrackMesh's elevation transform *)

\* the scene as RaceTrackVisualization mounts it, with nothing clicked
IdleScene ==
    /\ interactive = TRUE
    /\ hasOnTrackClick = FALSE
    /\ hasOnTurnClick = FALSE
    /\ showTurnNumbers = TRUE
    /\ customCallouts = <<>>
    /\ selectedTurn = Undefined
    /\ hudPosition = Undefined
    /\ showTrackInfo = FALSE
    /\ onTrackClickCalls = <<>>
    /\ onTurnClickCalls = <<>>
    /\ lastEvent = [kind |-> "none", idx |-> -1, pos |-> <<0, 0, 0>>]
    /\ InitCamera

SmoothPointChoices == { Pt(0, 0, 0), Pt(4, 2, -6), Pt(10, -3, 8) }

TrackDataChoices ==
    UNION { [1..k -> SmoothPointChoices] : k \in 0..MaxPoints }

InitSmooth ==
    /\ IdleScene
    /\ elevationMultiplier = DefaultElevation
    /\ groundOffset = DefaultGroundOffset
    /\ smoothingLevel \in 0..MaxLevel
    /\ trackData \in TrackDataChoices
    /\ processed = Null
    /\ alternateRoutes = ALTERNATE_ROUTES
    /\ IdleRoutes

NextSmooth ==
    \/ Smooth
    \/ BuildTrackMesh

SmoothSpec == InitSmooth /\ [][NextSmooth]_vars

MeshPointChoices == { Pt(0, -2, 0), Pt(3, 5, 1) }

NaNPoint == [x |-> R(1), y |-> NaN, z |-> R(1)]

\* MaxMeshPoints numeric points, alone or followed by a point without a height
MeshDataChoices ==
    LET numeric == [1..MaxMeshPoints -> MeshPointChoices]
    IN numeric \cup { Append(d, NaNPoint) : d \in numeric }

InitMesh ==
    /\ IdleScene
    /\ elevationMultiplier \in ElevMin..ElevMax
    /\ groundOffset \in GroundMin..GroundMax
    /\ smoothingLevel \in 0..1
    /\ trackData \in MeshDataChoices
    /\ processed = Null
    /\ alternateRoutes = ALTERNATE_ROUTES
    /\ IdleRoutes

NextMesh == BuildTrackMesh

MeshSpec == InitMesh /\ [][NextMesh]_vars

----------------------------------------------------------------------------
(* Specification of StartFinishLine's nearest-point lookup *)

LinePositions == { <<0, 3, 0>>, <<7, 4, 1>> }

InitLine ==
    /\ IdleScene
    /\ elevationMultiplier \in 1..MaxElev
    /\ groundOffset \in {GroundMin, DefaultGroundOffset}
    /\ smoothingLevel \in 0..1
    /\ trackData \in TrackDataChoices
    /\ processed = Null
    /\ alternateRoutes = ALTERNATE_ROUTES
    /\ IdleRoutes

NextLine == \E position \in LinePositions : BuildStartFinishLine(position)

LineSpec == InitLine /\ [][NextLine]_vars

----------------------------------------------------------------------------
(* Specification of RaceTrackVisualization's alternate routes *)

\* the longest bundled control-point list (bypass-3)
MaxControlPoints == Len(ControlPointsOf(ALTERNATE_ROUTES[3]))

InitRoutes ==
    /\ IdleScene
    /\ elevationMultiplier = DefaultElevation
    /\ trackData = SceneTrackData
    /\ smoothingLevel = 2
    /\ groundOffset = DefaultGroundOffset
    /\ processed = Null
    /\ alternateRoutes = ALTERNATE_ROUTES
    /\ IdleRoutes

NextRoutes ==
    \/ \E id \in RouteIds : SelectRoute(id)
    \/ ToggleClickToPlace
    \/ \E coordinate \in 0..2, str \in NewPointInputs : SetNewPoint(coordinate, str)
    \/ AddPoint
    \/ \E position \in RouteClickPositions : PlaceByClick(position)
    \/ \E pointIndex \in 0..(MaxControlPoints + MaxEdits), coordinate \in 0..2,
          str \in CoordinateInputs : UpdatePoint(pointIndex, coordinate, str)
    \/ \E pointIndex \in 0..(MaxControlPoints + MaxEdits) : DeletePoint(pointIndex)
    \/ \E id \in RouteIds : ToggleVisibility(id)

RouteSpec == InitRoutes /\ [][NextRoutes]_vars

----------------------------------------------------------------------------
(* Specification of AlternateRouteTrack's path for one route *)

SegmentsChoices ==
    UNION { [1..k -> {"straight", "curve"}] : k \in 1..MaxSegments }

RoutePointChoices ==
    { [k \in 1..n |-> <<10 * k, 5, -3 * k>>] : n \in 0..MaxRoutePoints }

RouteChoices ==
    { [ id |-> "route", name |-> "Route",
        startPoint |-> <<0, 1, 0>>, endPoint |-> <<100, 2, 50>>,
        controlPoints |-> IF Len(cps) = 0 THEN Null ELSE Some(cps),
        segments |-> Some(segs) ] : cps \in RoutePointChoices, segs \in SegmentsChoices }

InitSegments ==
    /\ IdleScene
    /\ elevationMultiplier = DefaultElevation
    /\ trackData = SceneTrackData
    /\ smoothingLevel = 2
    /\ groundOffset = DefaultGroundOffset
    /\ processed = Null
    /\ alternateRoutes \in { <<route>> : route \in RouteChoices }
    /\ selectedRouteId = Null
    /\ isClickToPlaceMode = FALSE
    /\ visibleRoutes = {"route"}
    /\ newPoint = <<"0", "0", "0">>
    /\ edits = 0

NextSegments == BuildRoutePath

SegmentSpec == InitSegments /\ [][NextSegments]_vars

----------------------------------------------------------------------------
(* Specification of RaceTrackVisualization's callouts and camera *)

InitViz ==
    /\ IdleScene
    /\ elevationMultiplier \in 1..MaxElev
    /\ trackData = SceneTrackData
    /\ smoothingLevel = 2
    /\ groundOffset = DefaultGroundOffset
    /\ processed = Null
    /\ alternateRoutes = ALTERNATE_ROUTES
    /\ IdleRoutes

NextViz ==
    \/ \E c \in 1..Len(TURN_CALLOUTS) : VizClickCallout(c)
    \/ MountControls
    \/ Tick
    \/ Frame

VizSpec == InitViz /\ [][NextViz]_vars

----------------------------------------------------------------------------
(* Specification of the plane and ribbon geometries *)

RibbonDataChoices ==
    UNION { [1..n -> MeshPointChoices \cup {NaNPoint}] : n \in 1..MaxMeshPoints }

InitRibbon ==
    /\ IdleScene
    /\ elevationMultiplier = DefaultElevation
    /\ groundOffset = DefaultGroundOffset
    /\ smoothingLevel = 0
    /\ trackData \in RibbonDataChoices
    /\ processed = Null
    /\ alternateRoutes = ALTERNATE_ROUTES
    /\ IdleRoutes

NextRibbon ==
    \/ \E isMobile \in BOOLEAN, shape \in CurveShapes : BuildPlaneGeometry(isMobile, shape)
    \/ \E isMobile \in BOOLEAN, shape \in CurveShapes, trackWidth \in TrackWidthChoices :
          BuildTrackRibbon(isMobile, shape, trackWidth)
    \/ \E k \in 2..MaxSamples, shape \in CurveShapes, trackWidth \in TrackWidthChoices :
          BuildRouteRibbon(k, shape, trackWidth)

RibbonSpec == InitRibbon /\ [][NextRibbon]_vars

----------------------------------------------------------------------------
(* Claims about TrackScene *)

\* C1: when TrackScene is interactive and has an onTurnClick callback, a
\* click on the callout of turn Tn invokes onTurnClick with the turn's
\* number n and the callout's position.
C1_TurnClickInvokesOnTurnClick ==
    (interactive /\ hasOnTurnClick /\ lastEvent.kind = "turn")
        => /\ onTurnClickCalls # <<>>
           /\ onTurnClickCalls[Len(onTurnClickCalls)] = <<lastEvent.idx + 1, lastEvent.pos>>

\* C2: when TrackScene is interactive and has an onTrackClick callback, a
\* click on the track in the scene invokes onTrackClick with the clicked
\* position; when interactive is false onTrackClick is never invoked.
C2_TrackClickInvokesOnTrackClick ==
    /\ (interactive /\ hasOnTrackClick /\ lastEvent.kind = "track")
          => /\ onTrackClickCalls # <<>>
             /\ onTrackClickCalls[Len(onTrackClickCalls)] = lastEvent.pos
    /\ ~interactive => onTrackClickCalls = <<>>

\* C3: the track information panel and the turn details HUD are never shown
\* together: showTrackInfo implies selectedTurn = null.
C3_PanelsNeverTogether == showTrackInfo => selectedTurn = Null

\* the panel is shown by a second callout click, after another callout
C3_Witness ==
    /\ showTrackInfo /\ selectedTurn = Null
    /\ lastEvent.kind = "startFinish"
    /\ animCalls = 2

\* C4: with showTurnNumbers, a click on turn callout i selects turn i, for
\* every i in 0..17 and every elevationMultiplier: the proximity lookup
\* resolves to no other turn and not to the start/finish line, and the HUD
\* shows the details of turn i + 1.
C4_CalloutSelectsItsTurn ==
    (showTurnNumbers /\ lastEvent.kind = "turn")
        => /\ lastEvent.idx \in 0..(NumTurnDetails - 1)
           /\ selectedTurn = Some(lastEvent.idx)
           /\ hudPosition = Some(lastEvent.pos)
           /\ ~showTrackInfo

\* the last turn callout was clicked and is selected
C4_Witness ==
    /\ showTurnNumbers /\ lastEvent.kind = "turn"
    /\ lastEvent.idx = 17 /\ selectedTurn = Some(17)
    /\ elevationMultiplier = MaxElev

\* C5: a click on the Start / Finish callout, from any state, results in
\* showTrackInfo = true, selectedTurn = null and hudPosition = null.
C5_StartFinishShowsTrackInfo ==
    lastEvent.kind = "startFinish"
        => showTrackInfo /\ selectedTurn = Null /\ hudPosition = Null

\* the Start / Finish callout was clicked after another callout
C5_Witness ==
    /\ lastEvent.kind = "startFinish" /\ lastEvent.pos = START_FINISH_POSITION
    /\ showTrackInfo /\ hudPosition = Null
    /\ animCalls = 2 /\ showTurnNumbers

----------------------------------------------------------------------------
(* Claims about CameraController *)

AnimActive == animation # Null /\ animation[1].active

ClaimedWindow(i, n, w) ==
    [k \in 1..w |-> (i - (w \div 2) + (k - 1) + n) % n]

ClaimedMean(points, i, w, c) ==
    LET win == ClaimedWindow(i, Len(points), w)
    IN RDivInt(RSum([k \in 1..w |-> points[win[k] + 1][c]]), w)

C7_SmoothIsWindowMean ==
    (/\ processed # Null
     /\ processed[1].kind = "smooth"
     /\ smoothingLevel >= 1
     /\ Len(trackData) >= 3) =>
        LET out == processed[1].out
            n == Len(trackData)
            w == Min2(2 * smoothingLevel + 1, n)
        IN /\ Len(out) = n
           /\ \A i \in 0..(n - 1) :
                /\ Cardinality({ ClaimedWindow(i, n, w)[k] : k \in 1..w }) = w
                /\ \A c \in {"x", "y", "z"} :
                     REq(out[i + 1][c], ClaimedMean(trackData, i, w, c))

\* C8: smoothPoints returns its input unchanged when level = 0 or there are
\* fewer than 3 points, and with the smoothing slider at 0 TrackMesh renders
\* the raw track points.
C8_NoSmoothingIsIdentity ==
    processed # Null =>
        /\ (/\ processed[1].kind = "smooth"
            /\ (smoothingLevel = 0 \/ Len(trackData) < 3))
              => processed[1].out = trackData
        /\ (/\ processed[1].kind = "mesh"
            /\ smoothingLevel = 0
            /\ processed[1].out.ok)
              => processed[1].out.processedPoints = SelectSeq(trackData, IsValidPoint)

C8_Witness ==
    /\ processed # Null
    /\ processed[1].kind = "smooth"
    /\ smoothingLevel >= 1
    /\ Len(trackData) = 2
    /\ trackData[1] # trackData[2]

\* C9: for every elevationMultiplier in 1..50 and groundOffset in 0..50,
\* TrackMesh places each processed point at height
\* (y - minY) * elevationMultiplier + groundOffset with minY the lowest
\* processed y; the lowest point is exactly at groundOffset and no point is
\* below ground level 0.
ClaimedMinY(pp) ==
    CHOOSE m \in { pp[i].y : i \in 1..Len(pp) } :
        \A i \in 1..Len(pp) : ~RLess(pp[i].y, m)

C9_HeightsAboveGround ==
    (/\ processed # Null
     /\ processed[1].kind = "mesh"
     /\ processed[1].out.ok) =>
        LET pp == processed[1].out.processedPoints
            pts == processed[1].out.points
            minY == ClaimedMinY(pp)
        IN /\ elevationMultiplier \in 1..50
           /\ groundOffset \in 0..50
           /\ Len(pts) = Len(pp)
           /\ \A i \in 1..Len(pp) :
                /\ REq(pts[i].y,
                       RAdd(RMulInt(RSub(pp[i].y, minY), elevationMultiplier),
                            R(groundOffset)))
                /\ ~RLess(pts[i].y, R(0))
                /\ REq(pp[i].y, minY) => REq(pts[i].y, R(groundOffset))
           /\ \E i \in 1..Len(pts) : REq(pts[i].y, R(groundOffset))

C9_Witness ==
    /\ processed # Null
    /\ processed[1].kind = "mesh"
    /\ processed[1].out.ok
    /\ elevationMultiplier = ElevMax
    /\ groundOffset = GroundMax
    /\ smoothingLevel = 1
    /\ Len(trackData) > Len(processed[1].out.points)
    /\ \E i \in 1..Len(processed[1].out.points) :
         RLess(R(groundOffset), processed[1].out.points[i].y)


\* C10: for each bundled alternate route and every route state reachable
\* through the editing operations, the path AlternateRouteTrack builds starts
\* at startPoint, passes through every control point in list order and ends
\* at endPoint.
RECURSIVE JoinCurves(_)
JoinCurves(curves) ==
    IF Len(curves) = 0 THEN <<>>
    ELSE IF Len(curves) = 1 THEN curves[1].pts
    ELSE curves[1].pts \o Tail(JoinCurves(Tail(curves)))

PathVisitsAllPoints(route) ==
    LET path == BuildPath(route)
        curves == path.curves
    IN /\ path.ok
       /\ Len(curves) >= 1
       /\ \A c \in 1..Len(curves) : Len(curves[c].pts) >= 2
       /\ \A c \in 1..(Len(curves) - 1) :
            curves[c].pts[Len(curves[c].pts)] = curves[c + 1].pts[1]
       /\ JoinCurves(curves) =
            <<route.startPoint>> \o ControlPointsOf(route) \o <<route.endPoint>>

C10_PathThroughAllPoints ==
    \A i \in 1..Len(alternateRoutes) :
        alternateRoutes[i].id \in visibleRoutes => PathVisitsAllPoints(alternateRoutes[i])


\* C11: in RaceTrackVisualization a scene click while click-to-place mode is
\* on and a route is selected appends the clicked position as the last
\* control point of the selected route and leaves every other route
\* unchanged; a scene click while the mode is off or no route is selected
\* changes no route.
SceneClickEffect(position) ==
    IF isClickToPlaceMode /\ selectedRouteId # Null
    THEN /\ Len(alternateRoutes') = Len(alternateRoutes)
         /\ \A i \in 1..Len(alternateRoutes) :
              IF alternateRoutes[i].id = selectedRouteId[1]
              THEN /\ ControlPointsOf(alternateRoutes'[i]) =
                        Append(ControlPointsOf(alternateRoutes[i]), position)
                   /\ [alternateRoutes'[i] EXCEPT !.controlPoints = Null] =
                        [alternateRoutes[i] EXCEPT !.controlPoints = Null]
              ELSE alternateRoutes'[i] = alternateRoutes[i]
    ELSE alternateRoutes' = alternateRoutes

PassedToScene(route) ==
    \E k \in 1..Len(visibleAlternateRoutes) : visibleAlternateRoutes[k] = route

C12_VisibilityState ==
    /\ edits = 0 =>
         visibleRoutes = { ALTERNATE_ROUTES[i].id : i \in 1..Len(ALTERNATE_ROUTES) }
    /\ \A i \in 1..Len(alternateRoutes) :
         PassedToScene(alternateRoutes[i]) <=> alternateRoutes[i].id \in visibleRoutes
    /\ Len(visibleAlternateRoutes) = Cardinality(visibleRoutes)
    /\ \A id \in RouteIds :
         toggleRouteVisibility(toggleRouteVisibility(visibleRoutes, id), id) = visibleRoutes

C12_ToggleStep ==
    \A id \in RouteIds :
        ToggleVisibility(id) =>
            /\ (id \in visibleRoutes') # (id \in visibleRoutes)
            /\ visibleRoutes' \ {id} = visibleRoutes \ {id}

C12_VisibilityToggles == [] C12_VisibilityState /\ [][C12_ToggleStep]_vars

C12_Witness ==
    /\ edits = 3
    /\ visibleRoutes = RouteIds \ {"bypass-2"}


\* C13: the nearest-point lookup that orients the start/finish marker selects
\* the lowest index among the processed (smoothed, elevation-transformed)
\* track points that minimise the distance to the given position, and takes
\* the direction from the cyclic predecessor to the cyclic successor of that
\* index.
ClaimedHeight(pp, i, em, go) ==
    RAdd(RMulInt(RSub(pp[i].y, ClaimedMinY(pp)), em), R(go))

ClaimedDistSq(pp, i, em, go, position) ==
    DistSq(pp[i], ClaimedHeight(pp, i, em, go), position)

C13_NearestPointLookup ==
    (processed # Null /\ processed[1].kind = "line") =>
        LET r == processed[1].out
            position == processed[1].position
            pp == IF smoothingLevel > 0 THEN smoothPoints(trackData, smoothingLevel)
                  ELSE trackData
            n == Len(pp)
            d(i) == ClaimedDistSq(pp, i, elevationMultiplier, groundOffset, position)
            minimisers == { i \in 1..n : \A j \in 1..n : ~RLess(d(j), d(i)) }
            c == r.closestIndex + 1
        IN /\ c \in minimisers
           /\ \A i \in minimisers : c <= i
           /\ r.prevIndex + 1 = (IF c = 1 THEN n ELSE c - 1)
           /\ r.nextIndex + 1 = (IF c = n THEN 1 ELSE c + 1)
           /\ REq(r.direction.x, RSub(pp[r.nextIndex + 1].x, pp[r.prevIndex + 1].x))
           /\ REq(r.direction.z, RSub(pp[r.nextIndex + 1].z, pp[r.prevIndex + 1].z))

\* two points tie for nearest and the later one is the last point
C13_Witness ==
    /\ processed # Null
    /\ processed[1].kind = "line"
    /\ smoothingLevel = 0
    /\ Len(trackData) = 3
    /\ trackData[1] = trackData[3]
    /\ trackData[1] # trackData[2]
    /\ processed[1].out.closestIndex = 0
    /\ processed[1].out.prevIndex = 2


\* C14: no sequence of control-point edits makes AlternateRouteTrack's path
\* construction read a point that does not exist: every 'straight' entry
\* processed finds allPoints[currentIndex] and allPoints[currentIndex+1], and
\* every curve is built from at least two points.
LeadingStraights(segments) ==
    IF \E j \in 1..Len(segments) : segments[j] = "curve"
    THEN (CHOOSE j \in 1..Len(segments) :
             /\ segments[j] = "curve"
             /\ \A h \in 1..(j - 1) : segments[h] # "curve") - 1
    ELSE Len(segments)

HasCurve(segments) == \E j \in 1..Len(segments) : segments[j] = "curve"

PointsSuffice(route) ==
    route.segments = Null \/ Len(route.segments[1]) = 0 \/
        LET segments == route.segments[1]
            m == Len(ControlPointsOf(route)) + 2
        IN IF HasCurve(segments) THEN LeadingStraights(segments) + 2 <= m
           ELSE LeadingStraights(segments) + 1 <= m

C14_NoMissingPointRead ==
    \A i \in 1..Len(alternateRoutes) :
        alternateRoutes[i].id \in visibleRoutes =>
            /\ PointsSuffice(alternateRoutes[i])
            /\ BuildPath(alternateRoutes[i]).ok


\* C15: whenever RaceTrack3D renders the turn details HUD, the turn index it
\* passes is an integer in 0..17; in particular, when the parent passes no
\* selectedTurn (as RaceTrackVisualization does), no HUD is rendered.
C15_HudTurnIndexValid ==
    /\ HudRendered => TurnDetailExists(selectedTurn)
    /\ selectedTurn = Undefined => ~HudRendered


\* C16: when a route has a segments list, each leading 'straight' entry adds
\* one straight line from the current point to the next point and advances by
\* one point; the first 'curve' entry adds a single spline through all
\* remaining points (current point to endPoint) and ends processing, so every
\* later entry of the segments list is ignored.  (Stated for the entries whose
\* points exist; C14 is about the others.)
ExpectedCurve(allPoints, segments, j) ==
    IF j <= LeadingStraights(segments)
    THEN [type |-> "LineCurve3", pts |-> <<allPoints[j], allPoints[j + 1]>>]
    ELSE [type |-> "CatmullRomCurve3", pts |-> SubSeq(allPoints, j, Len(allPoints))]

FlyToStarted(position, enableRotation, duration) ==
    /\ animation' # Null
    /\ animation'[1].active
    /\ animation'[1].startTime = now
    /\ animation'[1].targetTarget = position
    /\ animation'[1].duration = duration
    /\ animation'[1].targetCameraPos =
          TargetCameraPos(position, FlyDistance(trackData), enableRotation)

C17_CalloutFlyTo ==
    [][(animCalls' = animCalls + 1 /\ controlsReady) =>
          /\ lastEvent'.kind = "turn" => FlyToStarted(lastEvent'.pos, TRUE, 2000)
          /\ lastEvent'.kind = "startFinish" => FlyToStarted(lastEvent'.pos, FALSE, 1000)]_vars


\* C18: no user operation in RaceTrackVisualization adds, removes or reorders
\* alternate routes, or changes a route's id, name, startPoint, endPoint or
\* segments list: only controlPoints ever changes, so the set of route ids
\* stays equal to the four bundled ids and visibleRoutes is always a subset
\* of it.
C18_OnlyControlPointsChange ==
    /\ Len(alternateRoutes) = Len(ALTERNATE_ROUTES)
    /\ \A i \in 1..Len(ALTERNATE_ROUTES) :
         /\ i <= Len(alternateRoutes)
         /\ \A f \in {"id", "name", "startPoint", "endPoint", "segments"} :
              alternateRoutes[i][f] = ALTERNATE_ROUTES[i][f]
    /\ { alternateRoutes[i].id : i \in 1..Len(alternateRoutes) } =
         {"chicane-bypass-1", "bypass-2", "bypass-3", "bypass-4"}
    /\ visibleRoutes \subseteq { alternateRoutes[i].id : i \in 1..Len(alternateRoutes) }

C18_Witness ==
    /\ alternateRoutes[2].controlPoints = Null
    /\ Len(ControlPointsOf(alternateRoutes[4])) = 3
    /\ visibleRoutes # RouteIds


\* C19: in TrackMesh's gradient-fade plane and ribbon geometries each of the
\* k sampled curve points contributes exactly 2 vertices, every triangle
\* index is in 0..2k-1, including the two closing triangles that join the
\* last vertex pair back to the first pair, and there are exactly 2k
\* triangles.
C19_TrackIndexBuffers ==
    (/\ processed # Null
     /\ processed[1].kind \in {"plane", "ribbon"}
     /\ processed[1].kind = "ribbon" => processed[1].component = "TrackMesh") =>
        LET g == processed[1]
            k == Len(g.curvePoints)
        IN /\ Len(g.vertices) = 2 * k
           /\ Len(g.indices) = 2 * k
           /\ \A t \in 1..Len(g.indices) : \A c \in 1..3 :
                g.indices[t][c] \in 0..(2 * k - 1)
           /\ { g.indices[2 * k - 1][c] : c \in 1..3 } = {2 * k - 2, 2 * k - 1, 0}
           /\ { g.indices[2 * k][c] : c \in 1..3 } = {2 * k - 1, 0, 1}

C19_Witness ==
    /\ processed # Null
    /\ processed[1].kind = "plane"
    /\ Len(trackData) = 3
    /\ Len(processed[1].curvePoints) = 9
    /\ Len(processed[1].indices) = 18


\* C20: in the ribbon extrusion (main track and alternate routes) the left
\* and right vertices generated for a centre-line point are mirror images
\* about it: their midpoint is the centre-line point, both have its height,
\* and their horizontal offset is perpendicular to the horizontal direction
\* of travel with length trackWidth/2 each whenever that direction is
\* non-zero.  (The direction of travel at a point is towards the next point
\* of the centre line: the cyclic successor on the main track, the following
\* sample on an alternate route, whose last sample has none.)
HasSuccessor(g, i) ==
    g.component = "TrackMesh" \/ i < Len(g.curvePoints)

TravelDirection(g, i) ==
    VSub(g.curvePoints[(i % Len(g.curvePoints)) + 1], g.curvePoints[i])

============================================================================
